---- MODULE Spec2Model ----
(***************************************************************************)
(* Solo Leveling productivity API (src/main.py): hunters, stats, quests    *)
(* and the activity log kept in a document store, and the request          *)
(* handlers that read and write them.  Each handler is one action of Spec  *)
(* (requests run one at a time).  SpecRank applies compute_rank to inputs  *)
(* drawn from a bounded range of levels.  SpecConc runs complete and claim *)
(* requests concurrently, one store operation per step.                    *)
(*                                                                         *)
(* Documents carry the fields the handlers read or write, except the       *)
(* created_at / updated_at timestamps.  Ids are well-formed; the read-only *)
(* routes (/, /test, get_hunter, list_quests, get_logs) are not modelled.  *)
(* A log message is its kind: "awakened", "registered", "completed",       *)
(* "levelup", "rewards", "dailies".                                        *)
(***************************************************************************)
EXTENDS Integers, Sequences, FiniteSets, TLC

VARIABLES hunters,    \* collection "hunter": sequence of documents, _id = index
          stats,      \* collection "stats": sequence of documents
          quests,     \* collection "quest": sequence of documents, _id = index
          logs,       \* collection "log": sequence of documents, oldest first
          response,   \* the last request and what it returned
          rank_in,    \* SpecRank: the two levels compute_rank is applied to
          rank_out,   \* SpecRank: the two ranks it returned ("" before the call)
          requests    \* SpecConc: the requests started, each with its position
                      \* in its handler and the documents it has read

vars == <<hunters, stats, quests, logs, response, rank_in, rank_out, requests>>
storeVars == <<hunters, stats, quests, logs, response>>
rankVars == <<rank_in, rank_out>>

----------------------------------------------------------------------------
\* Bounds of the model: documents per collection (MaxSeeded is the room a
\* seed request needs for its batch), log entries, and the levels of SpecRank
MaxHunters == 2
MaxQuests == 2
MaxSeeded == 3
MaxLogs == 6
MaxRankLevel == 34
MaxRequests == 3
MaxInFlight == MaxRequests - 1

\* Program constants
LEVEL_STEP == 100
RANKS == <<"E", "D", "C", "B", "A", "S", "Shadow Monarch">>
DefaultEnergy == 100
DefaultStat == 1

\* Identifiers.  A store-generated _id is the document's position in its
\* collection; GhostId is a well-formed id that names no document.
GhostId == 0

StatNames == {"STR", "INT", "DEX", "STA", "LUK"}
StatKeys == StatNames \cup {"AGI"}

\* Request inputs
DisplayNames == {"Jin"}
Emails == {"", "jin@x"}             \* "" stands for an absent (None) email
EmptyReward == [k \in {} |-> 0]
\* (exp_reward, stat_reward) of the quests a client creates
QuestRewards ==
    {[exp_reward |-> 95, stat_reward |-> EmptyReward],
     [exp_reward |-> 405,
      stat_reward |-> [k \in {"AGI", "STR"} |-> IF k = "AGI" THEN 1 ELSE 0 - 2]]}

----------------------------------------------------------------------------
\* compute_rank checking the thresholds from the lowest up
compute_rank_ascending(level) ==
    IF level < 5 THEN "E"
    ELSE IF level >= 5 THEN "D"
    ELSE IF level >= 10 THEN "C"
    ELSE IF level >= 15 THEN "B"
    ELSE IF level >= 20 THEN "A"
    ELSE IF level >= 25 THEN "S"
    ELSE "Shadow Monarch"

\* compute_rank comparing with > where the code has >=
compute_rank_strict(level) ==
    IF level > 30 THEN "Shadow Monarch"
    ELSE IF level > 25 THEN "S"
    ELSE IF level > 20 THEN "A"
    ELSE IF level > 15 THEN "B"
    ELSE IF level > 10 THEN "C"
    ELSE IF level > 5 THEN "D"
    ELSE "E"

\* compute_rank, checking from the highest threshold down
compute_rank(level) ==
    IF level >= 30 THEN "Shadow Monarch"
    ELSE IF level >= 25 THEN "S"
    ELSE IF level >= 20 THEN "A"
    ELSE IF level >= 15 THEN "B"
    ELSE IF level >= 10 THEN "C"
    ELSE IF level >= 5 THEN "D"
    ELSE "E"

\* The rollover loop of claim_quest: while new_exp >= LEVEL_STEP ...
RolloverCond(new_exp) == new_exp >= LEVEL_STEP

\* Rollover as a single step: "if" where the code has "while"
RolloverOnce(new_exp, level, leveled_up) ==
    IF RolloverCond(new_exp)
    THEN [exp |-> new_exp - LEVEL_STEP, level |-> level + 1, leveled_up |-> TRUE]
    ELSE [exp |-> new_exp, level |-> level, leveled_up |-> leveled_up]

RECURSIVE Rollover(_, _, _)
Rollover(new_exp, level, leveled_up) ==
    IF RolloverCond(new_exp)
    THEN Rollover(new_exp - LEVEL_STEP, level + 1, TRUE)
    ELSE [exp |-> new_exp, level |-> level, leveled_up |-> leveled_up]

----------------------------------------------------------------------------
\* Store helpers.  find_one returns the first matching document in
\* insertion order, or nothing (NoDoc).
NoDoc == 0

FirstIndex(S) == IF S = {} THEN NoDoc ELSE CHOOSE i \in S : \A j \in S : i <= j

\* db["hunter"].find_one(query) of create_or_get_hunter: by email when the
\* payload has one, else by display name
\* The lookup comparing the stored display name with the payload's email
HunterQueryWrongField(h, display_name, email) ==
    IF email # "" THEN h.display_name = email ELSE h.display_name = display_name

HunterQuery(h, display_name, email) ==
    IF email # "" THEN h.email = email ELSE h.display_name = display_name

FindHunterByQuery(display_name, email) ==
    FirstIndex({i \in 1..Len(hunters) : HunterQuery(hunters[i], display_name, email)})

\* db["hunter"].find_one({"_id": ObjectId(id)}) for a well-formed id
\* The lookup by id falling back to the first hunter when none has the id
FindHunterByIdOrFirst(id) ==
    IF id \in 1..Len(hunters) THEN id
    ELSE IF Len(hunters) > 0 THEN 1 ELSE NoDoc

FindHunterById(id) == IF id \in 1..Len(hunters) THEN id ELSE NoDoc

\* db["quest"].find_one({"_id": ObjectId(quest_id)})
FindQuestById(id) == IF id \in 1..Len(quests) THEN id ELSE NoDoc

\* db["stats"].find_one({"hunter_id": hunter_id})
\* The stats lookup comparing the document's _id with the hunter id
FindStatsById(hunter_id) ==
    FirstIndex({i \in 1..Len(stats) : i = hunter_id})

FindStats(hunter_id) ==
    FirstIndex({i \in 1..Len(stats) : stats[i].hunter_id = hunter_id})

DefaultCounters == [k \in StatNames |-> DefaultStat]

LogDoc(hunter_id, message, level) ==
    [hunter_id |-> hunter_id, message |-> message, level |-> level]

\* What a handler returned: the HTTP code, the error detail and, of the
\* body, the hunter's id, the status, the progression fields and the
\* counters; a field the body does not have is "" / 0 / NoDoc.
Resp(op, code, detail, id, status) ==
    [op |-> op, code |-> code, detail |-> detail, id |-> id, status |-> status,
     level |-> 0, rank |-> "", exp |-> 0, total_exp |-> 0,
     counters |-> EmptyReward]

HunterResp(op, id, h) ==
    [op |-> op, code |-> 200, detail |-> "", id |-> id, status |-> "",
     level |-> h.level, rank |-> h.rank, exp |-> h.exp,
     total_exp |-> h.total_exp, counters |-> EmptyReward]

----------------------------------------------------------------------------
\* POST /api/hunter
NewHunter(display_name, email) ==
    [display_name |-> display_name, email |-> email, rank |-> "E",
     level |-> 1, exp |-> 0, total_exp |-> 0,
     energy |-> DefaultEnergy, title |-> ""]

create_or_get_hunter(display_name, email) ==
    LET existing == FindHunterByQuery(display_name, email)
        res_id == Len(hunters) + 1
    IN  IF existing # NoDoc
        THEN /\ response' = HunterResp("create_or_get_hunter", existing,
                                       hunters[existing])
             /\ UNCHANGED <<hunters, stats, quests, logs>>
        ELSE /\ Len(hunters) < MaxHunters
             /\ Len(logs) < MaxLogs
             /\ hunters' = Append(hunters, NewHunter(display_name, email))
             /\ stats' = Append(stats, [hunter_id |-> res_id,
                                        counters |-> DefaultCounters])
             /\ logs' = Append(logs, LogDoc(res_id, "awakened", "success"))
             /\ response' = HunterResp("create_or_get_hunter", res_id,
                                       NewHunter(display_name, email))
             /\ UNCHANGED quests

\* GET /api/stats
get_stats(hunter_id) ==
    LET doc == FindStats(hunter_id)
    IN  IF doc # NoDoc
        THEN /\ response' = [Resp("get_stats", 200, "", NoDoc, "")
                               EXCEPT !.counters = stats[doc].counters]
             /\ UNCHANGED <<hunters, stats, quests, logs>>
        ELSE /\ stats' = Append(stats, [hunter_id |-> hunter_id,
                                        counters |-> DefaultCounters])
             /\ response' = [Resp("get_stats", 200, "", NoDoc, "")
                               EXCEPT !.counters = DefaultCounters]
             /\ UNCHANGED <<hunters, quests, logs>>

\* POST /api/quests
NewQuest(hunter_id, title, exp_reward, stat_reward) ==
    [hunter_id |-> hunter_id, title |-> title, type |-> "daily",
     exp_reward |-> exp_reward, stat_reward |-> stat_reward,
     status |-> "pending"]

create_quest(hunter_id, exp_reward, stat_reward) ==
    /\ Len(quests) < MaxQuests
    /\ Len(logs) < MaxLogs
    /\ quests' = Append(quests, NewQuest(hunter_id, "Quest", exp_reward, stat_reward))
    /\ logs' = Append(logs, LogDoc(hunter_id, "registered", "info"))
    /\ response' = Resp("create_quest", 200, "", NoDoc, "pending")
    /\ UNCHANGED <<hunters, stats>>

\* POST /api/quests/{quest_id}/complete
\* complete_quest returning early only for a claimed quest
CompleteNoOpClaimedOnly(q) == q.status = "claimed"

\* complete_quest returning early only for a completed quest
CompleteNoOpCompletedOnly(q) == q.status = "completed"

\* complete_quest without its early return
CompleteNoOpNever(q) == FALSE

CompleteNoOp(q) == q.status \in {"completed", "claimed"}

complete_quest(quest_id) ==
    LET qi == FindQuestById(quest_id)
        q == quests[qi]
    IN  IF qi = NoDoc
        THEN /\ response' = Resp("complete_quest", 404, "Quest not found", NoDoc, "")
             /\ UNCHANGED <<hunters, stats, quests, logs>>
        ELSE IF CompleteNoOp(q)
        THEN /\ response' = Resp("complete_quest", 200, "", NoDoc, q.status)
             /\ UNCHANGED <<hunters, stats, quests, logs>>
        ELSE /\ Len(logs) < MaxLogs
             /\ quests' = [quests EXCEPT ![qi].status = "completed"]
             /\ logs' = Append(logs, LogDoc(q.hunter_id, "completed", "success"))
             /\ response' = Resp("complete_quest", 200, "", NoDoc, "completed")
             /\ UNCHANGED <<hunters, stats>>

\* POST /api/quests/{quest_id}/claim
\* claim_quest without its early return
ClaimNoOpNever(q) == FALSE

\* claim_quest refusing every quest that is not completed
ClaimNoOpUnlessCompleted(q) == q.status # "completed"

ClaimNoOp(q) == q.status = "claimed"

\* The hunter fields written by claim_quest (lines 238-256)
\* total_exp capped at the EXP of four levels
NewTotalCapped(h, q) ==
    IF h.total_exp + q.exp_reward > 4 * LEVEL_STEP
    THEN 4 * LEVEL_STEP ELSE h.total_exp + q.exp_reward

\* total_exp computed from the current-level exp
NewTotalFromExp(h, q) == h.exp + q.exp_reward

NewTotal(h, q) == h.total_exp + q.exp_reward

\* claim_quest writing the rank it read instead of deriving it from the level
ClaimedHunterStaleRank(h, q) ==
    LET r == Rollover(h.exp + q.exp_reward, h.level, FALSE)
    IN  [h EXCEPT !.exp = r.exp, !.total_exp = NewTotal(h, q),
                  !.level = r.level]

ClaimedHunter(h, q) ==
    LET r == Rollover(h.exp + q.exp_reward, h.level, FALSE)
    IN  [h EXCEPT !.exp = r.exp, !.total_exp = NewTotal(h, q),
                  !.level = r.level, !.rank = compute_rank(r.level)]

LeveledUp(h, q) == Rollover(h.exp + q.exp_reward, h.level, FALSE).leveled_up

\* stats.get(k, 1): an absent counter starting from the default of a new record
StatGetDefaultOne(counters, k) ==
    IF k \in DOMAIN counters THEN counters[k] ELSE DefaultStat

\* stats.get(k, 0)
StatGet(counters, k) == IF k \in DOMAIN counters THEN counters[k] ELSE 0

\* for k, v in stat_reward.items(): stats[k] = int(stats.get(k, 0)) + int(v)
MergeStats(counters, stat_reward) ==
    [k \in DOMAIN counters \cup DOMAIN stat_reward |->
        IF k \in DOMAIN stat_reward
        THEN StatGet(counters, k) + stat_reward[k]
        ELSE counters[k]]

\* The stats collection after "Apply stat rewards" (update_one, upsert=True)
ClaimedStats(hid, stat_reward) ==
    LET si == FindStats(hid)
    IN  IF stat_reward = EmptyReward THEN stats
        ELSE IF si = NoDoc
        THEN Append(stats, [hunter_id |-> hid,
                            counters |-> MergeStats(EmptyReward, stat_reward)])
        ELSE [stats EXCEPT ![si].counters = MergeStats(stats[si].counters, stat_reward)]

\* The "Level Up!" log written after the summary, and on every claim
ClaimLogsAlwaysLevelUp(hid, leveled_up) ==
    <<LogDoc(hid, "rewards", "info"), LogDoc(hid, "levelup", "success")>>

ClaimLogs(hid, leveled_up) ==
    IF leveled_up
    THEN <<LogDoc(hid, "levelup", "success"), LogDoc(hid, "rewards", "info")>>
    ELSE <<LogDoc(hid, "rewards", "info")>>

claim_quest(quest_id) ==
    LET qi == FindQuestById(quest_id)
        q == quests[qi]
        hi == FindHunterById(q.hunter_id)
        hunter == hunters[hi]
        new == ClaimedHunter(hunter, q)
    IN  IF qi = NoDoc
        THEN /\ response' = Resp("claim_quest", 404, "Quest not found", NoDoc, "")
             /\ UNCHANGED <<hunters, stats, quests, logs>>
        ELSE IF ClaimNoOp(q)
        THEN /\ response' = Resp("claim_quest", 200, "", NoDoc, "claimed")
             /\ UNCHANGED <<hunters, stats, quests, logs>>
        ELSE IF hi = NoDoc
        THEN /\ response' = Resp("claim_quest", 404, "Hunter not found", NoDoc, "")
             /\ UNCHANGED <<hunters, stats, quests, logs>>
        ELSE /\ Len(logs) + Len(ClaimLogs(hi, LeveledUp(hunter, q))) <= MaxLogs
             /\ hunters' = [hunters EXCEPT ![hi] = new]
             /\ stats' = ClaimedStats(hi, q.stat_reward)
             /\ quests' = [quests EXCEPT ![qi].status = "claimed"]
             /\ logs' = logs \o ClaimLogs(hi, LeveledUp(hunter, q))
             /\ response' = [Resp("claim_quest", 200, "", NoDoc, "claimed")
                               EXCEPT !.level = new.level, !.rank = new.rank,
                                      !.exp = new.exp, !.total_exp = new.total_exp]

\* POST /api/seed/dailies
Samples ==
    <<[title |-> "Study 1 hour", exp_reward |-> 25,
       stat_reward |-> [k \in {"INT"} |-> 1]],
      [title |-> "Workout 30 mins", exp_reward |-> 30,
       stat_reward |-> [k \in {"STR", "STA"} |-> 1]],
      [title |-> "Read 20 pages", exp_reward |-> 20,
       stat_reward |-> [k \in {"INT"} |-> 1]]>>

seed_dailies(hunter_id) ==
    /\ Len(quests) + Len(Samples) <= MaxSeeded
    /\ Len(logs) < MaxLogs
    /\ quests' = quests \o [i \in 1..Len(Samples) |->
                    NewQuest(hunter_id, Samples[i].title, Samples[i].exp_reward,
                             Samples[i].stat_reward)]
    /\ logs' = Append(logs, LogDoc(hunter_id, "dailies", "info"))
    /\ response' = Resp("seed_dailies", 200, "", NoDoc, "pending")
    /\ UNCHANGED <<hunters, stats>>

----------------------------------------------------------------------------
\* Ids a client can send: for a hunter, those of the existing documents and
\* a well-formed id of no document; for a quest, those of the existing ones.
HunterIdInputs == (1..Len(hunters)) \cup {GhostId}
QuestIdInputs == 1..Len(quests)

CreateOrGetHunter ==
    \E n \in DisplayNames, e \in Emails : create_or_get_hunter(n, e)
GetStats == \E h \in HunterIdInputs : get_stats(h)
\* Clients create quests for existing hunters; the quests that reference no
\* hunter are those a seed request for GhostId inserts.
CreateQuest ==
    \E h \in 1..Len(hunters), r \in QuestRewards :
        create_quest(h, r.exp_reward, r.stat_reward)
CompleteQuest == \E q \in QuestIdInputs : complete_quest(q)
ClaimQuest == \E q \in QuestIdInputs : claim_quest(q)
SeedDailies == \E h \in HunterIdInputs : seed_dailies(h)

Init ==
    /\ hunters = <<>>
    /\ stats = <<>>
    /\ quests = <<>>
    /\ logs = <<>>
    /\ response = Resp("", 0, "", NoDoc, "")
    /\ rank_in = <<0, 0>>
    /\ rank_out = <<"", "">>
    /\ requests = <<>>

Next ==
    \/ CreateOrGetHunter /\ UNCHANGED <<rankVars, requests>>
    \/ GetStats /\ UNCHANGED <<rankVars, requests>>
    \/ CreateQuest /\ UNCHANGED <<rankVars, requests>>
    \/ CompleteQuest /\ UNCHANGED <<rankVars, requests>>
    \/ ClaimQuest /\ UNCHANGED <<rankVars, requests>>
    \/ SeedDailies /\ UNCHANGED <<rankVars, requests>>

Spec == Init /\ [][Next]_vars

----------------------------------------------------------------------------
\* compute_rank applied to two levels drawn from 0..MaxRankLevel
RankLevels == 0..MaxRankLevel

InitRank ==
    /\ hunters = <<>>
    /\ stats = <<>>
    /\ quests = <<>>
    /\ logs = <<>>
    /\ response = Resp("", 0, "", NoDoc, "")
    /\ rank_in \in RankLevels \X RankLevels
    /\ rank_out = <<"", "">>
    /\ requests = <<>>

ComputeRank ==
    /\ rank_out = <<"", "">>
    /\ rank_out' = <<compute_rank(rank_in[1]), compute_rank(rank_in[2])>>
    /\ UNCHANGED <<rank_in, storeVars, requests>>

NextRank == ComputeRank

SpecRank == InitRank /\ [][NextRank]_vars

----------------------------------------------------------------------------
\* Concurrent complete and claim requests.  A request is a handler run whose
\* store operations (find_one, update_one, insert_one) are the atomic steps;
\* between two of them any other request may take steps.  The request keeps
\* what it read in its local variables q, hunter and stats.
NoQuest == NewQuest(GhostId, "", 0, EmptyReward)
NoHunter == NewHunter("", "")

NewRequest(op, quest_id) ==
    [op |-> op, quest_id |-> quest_id, pc |-> "read_quest",
     q |-> NoQuest, hunter_id |-> NoDoc, hunter |-> NoHunter,
     counters |-> EmptyReward, awarded |-> FALSE]

\* A request that returned: its local variables are gone
Done(req) ==
    [req EXCEPT !.pc = "done", !.q = NoQuest, !.hunter = NoHunter,
                !.counters = EmptyReward]

\* The requests that have not returned
InFlight == {r \in 1..Len(requests) : requests[r].pc # "done"}

\* A hunter, its stats, and two pending quests of that hunter, one with each
\* reward
InitConc ==
    /\ hunters = <<NewHunter("Jin", "")>>
    /\ stats = <<[hunter_id |-> 1, counters |-> DefaultCounters]>>
    /\ quests = <<NewQuest(1, "Quest", 95, EmptyReward),
                  NewQuest(1, "Quest", 405,
                           [k \in {"AGI", "STR"} |-> IF k = "AGI" THEN 1 ELSE 0 - 2])>>
    /\ logs = <<LogDoc(1, "awakened", "success"), LogDoc(1, "registered", "info"),
                LogDoc(1, "registered", "info")>>
    /\ response = Resp("", 0, "", NoDoc, "")
    /\ rank_in = <<0, 0>>
    /\ rank_out = <<"", "">>
    /\ requests = <<>>

StartRequest(op, quest_id) ==
    /\ Len(requests) < MaxRequests
    /\ Cardinality(InFlight) < MaxInFlight
    /\ requests' = Append(requests, NewRequest(op, quest_id))
    /\ UNCHANGED <<storeVars, rankVars>>

At(r, op, pc) == requests[r].op = op /\ requests[r].pc = pc

\* complete_quest line 210-214: find_one and the early return
CompleteReadQuest(r) ==
    LET q == quests[FindQuestById(requests[r].quest_id)]
    IN  /\ At(r, "complete_quest", "read_quest")
        /\ requests' = [requests EXCEPT ![r] =
                          IF CompleteNoOp(q) THEN Done(@)
                          ELSE [@ EXCEPT !.q = q, !.pc = "write_quest"]]
        /\ UNCHANGED <<storeVars, rankVars>>

\* complete_quest line 215: update_one by _id
CompleteWriteQuest(r) ==
    /\ At(r, "complete_quest", "write_quest")
    /\ quests' = [quests EXCEPT ![requests[r].quest_id].status = "completed"]
    /\ requests' = [requests EXCEPT ![r].pc = "write_log"]
    /\ UNCHANGED <<hunters, stats, logs, response, rankVars>>

\* complete_quest line 216-222: insert_one into the log
CompleteWriteLog(r) ==
    /\ At(r, "complete_quest", "write_log")
    /\ logs' = Append(logs, LogDoc(requests[r].q.hunter_id, "completed", "success"))
    /\ requests' = [requests EXCEPT ![r] = Done(@)]
    /\ UNCHANGED <<hunters, stats, quests, response, rankVars>>

\* claim_quest line 227-231: find_one and the early return
ClaimReadQuest(r) ==
    LET q == quests[FindQuestById(requests[r].quest_id)]
    IN  /\ At(r, "claim_quest", "read_quest")
        /\ requests' = [requests EXCEPT ![r] =
                          IF ClaimNoOp(q) THEN Done(@)
                          ELSE [@ EXCEPT !.q = q, !.pc = "read_hunter"]]
        /\ UNCHANGED <<storeVars, rankVars>>

\* claim_quest line 234-236: find_one of the hunter, 404 when missing
ClaimReadHunter(r) ==
    LET hi == FindHunterById(requests[r].q.hunter_id)
    IN  /\ At(r, "claim_quest", "read_hunter")
        /\ requests' = IF hi = NoDoc
                       THEN [requests EXCEPT ![r] = Done(@)]
                       ELSE [requests EXCEPT ![r].hunter_id = hi,
                                             ![r].hunter = hunters[hi],
                                             ![r].pc = "write_hunter"]
        /\ UNCHANGED <<storeVars, rankVars>>

\* claim_quest line 238-256: the new fields computed from the hunter that was
\* read, written with one update_one $set
ClaimWriteHunter(r) ==
    LET new == ClaimedHunter(requests[r].hunter, requests[r].q)
    IN  /\ At(r, "claim_quest", "write_hunter")
        /\ hunters' = [hunters EXCEPT ![requests[r].hunter_id] =
                          [@ EXCEPT !.exp = new.exp, !.total_exp = new.total_exp,
                                    !.level = new.level, !.rank = new.rank]]
        /\ requests' = [requests EXCEPT ![r].awarded = TRUE,
                          ![r].pc = IF requests[r].q.stat_reward = EmptyReward
                                    THEN "write_quest" ELSE "read_stats"]
        /\ UNCHANGED <<stats, quests, logs, response, rankVars>>

\* claim_quest line 261: find_one of the stats document
ClaimReadStats(r) ==
    LET si == FindStats(requests[r].hunter_id)
    IN  /\ At(r, "claim_quest", "read_stats")
        /\ requests' = [requests EXCEPT ![r].pc = "write_stats",
                          ![r].counters = IF si = NoDoc THEN EmptyReward
                                          ELSE stats[si].counters]
        /\ UNCHANGED <<storeVars, rankVars>>

\* claim_quest line 262-265: the counters that were read, merged with the
\* reward, $set on the stored document (upsert)
ClaimWriteStats(r) ==
    LET si == FindStats(requests[r].hunter_id)
        merged == MergeStats(requests[r].counters, requests[r].q.stat_reward)
    IN  /\ At(r, "claim_quest", "write_stats")
        /\ stats' = IF si = NoDoc
                    THEN Append(stats, [hunter_id |-> requests[r].hunter_id,
                                        counters |-> merged])
                    ELSE [stats EXCEPT ![si].counters =
                             [k \in DOMAIN @ \cup DOMAIN merged |->
                                 IF k \in DOMAIN merged THEN merged[k] ELSE @[k]]]
        /\ requests' = [requests EXCEPT ![r].pc = "write_quest"]
        /\ UNCHANGED <<hunters, quests, logs, response, rankVars>>

\* claim_quest line 268: update_one by _id
ClaimWriteQuest(r) ==
    /\ At(r, "claim_quest", "write_quest")
    /\ quests' = [quests EXCEPT ![requests[r].quest_id].status = "claimed"]
    /\ requests' = [requests EXCEPT ![r].pc = "write_logs"]
    /\ UNCHANGED <<hunters, stats, logs, response, rankVars>>

\* claim_quest line 271-285: the log inserts
ClaimWriteLogs(r) ==
    /\ At(r, "claim_quest", "write_logs")
    /\ logs' = logs \o ClaimLogs(requests[r].hunter_id,
                                 LeveledUp(requests[r].hunter, requests[r].q))
    /\ requests' = [requests EXCEPT ![r] = Done(@)]
    /\ UNCHANGED <<hunters, stats, quests, response, rankVars>>

\* The requests clients send: claims of both quests, completes of the first
RequestInputs ==
    {<<"claim_quest", 1>>, <<"claim_quest", 2>>, <<"complete_quest", 1>>}

Start == \E in \in RequestInputs : StartRequest(in[1], in[2])
CompleteStep ==
    \E r \in 1..Len(requests) :
        CompleteReadQuest(r) \/ CompleteWriteQuest(r) \/ CompleteWriteLog(r)
ClaimReadStep ==
    \E r \in 1..Len(requests) :
        ClaimReadQuest(r) \/ ClaimReadHunter(r) \/ ClaimReadStats(r)
ClaimWriteStep ==
    \E r \in 1..Len(requests) :
        \/ ClaimWriteHunter(r) \/ ClaimWriteStats(r)
        \/ ClaimWriteQuest(r) \/ ClaimWriteLogs(r)

NextConc == Start \/ CompleteStep \/ ClaimReadStep \/ ClaimWriteStep

SpecConc == InitConc /\ [][NextConc]_vars

----------------------------------------------------------------------------
\* Properties

StoreUnchanged == UNCHANGED <<hunters, stats, quests, logs>>

\* The log entries a step appended
NewLogs == SubSeq(logs', Len(logs) + 1, Len(logs'))

\* A claim request for quest i that gets past both early returns and both
\* NotFound checks
Awards(i) ==
    /\ response'.op = "claim_quest"
    /\ quests[i].status # "claimed"
    /\ FindHunterById(quests[i].hunter_id) # NoDoc
    /\ claim_quest(i)

\* The rank table of the specification: one rank per threshold reached
RankThresholds == {5, 10, 15, 20, 25, 30}
RankByTable(level) == RANKS[1 + Cardinality({t \in RankThresholds : level >= t})]

\* C1: a claim on a quest that is already claimed changes no hunter, stats,
\* quest or log document and answers 200 with status "claimed".
C1_ClaimClaimedIsNoOp ==
    [][\A i \in 1..Len(quests) :
          (response'.op = "claim_quest" /\ quests[i].status = "claimed"
             /\ claim_quest(i)) =>
              /\ StoreUnchanged
              /\ response'.code = 200
              /\ response'.status = "claimed"]_vars

\* A claimed quest whose hunter has the quest's reward exactly once, right
\* after a claim that answered with the bare status.
C1_Witness ==
    /\ response.op = "claim_quest" /\ response.code = 200
    /\ response.status = "claimed" /\ response.level = 0
    /\ \E i \in 1..Len(quests) :
          /\ quests[i].status = "claimed"
          /\ quests[i].exp_reward > 0
          /\ quests[i].hunter_id \in 1..Len(hunters)
          /\ hunters[quests[i].hunter_id].total_exp = quests[i].exp_reward

\* C2: a claim that awards sets level to L + (E + R) \div 100 and exp to
\* (E + R) % 100, and appends the "Level Up!" log exactly when the level grew.
C2_ClaimLevelArithmetic ==
    [][\A i \in 1..Len(quests) :
          Awards(i) =>
              LET hid == quests[i].hunter_id
                  L == hunters[hid].level
                  E == hunters[hid].exp
                  R == quests[i].exp_reward
              IN  /\ L >= 1 /\ 0 <= E /\ E < 100 /\ R >= 0
                  /\ hunters'[hid].level = L + ((E + R) \div 100)
                  /\ hunters'[hid].exp = (E + R) % 100
                  /\ response'.level = hunters'[hid].level
                  /\ response'.exp = hunters'[hid].exp
                  /\ (\E n \in 1..Len(NewLogs) : NewLogs[n].message = "levelup")
                        <=> hunters'[hid].level > L]_vars

\* The scenario of the specification's kind: from exp 95, one claim of 405
\* crosses five levels and leaves exp 0.
C2_Witness ==
    /\ response.op = "claim_quest" /\ response.level = 6 /\ response.exp = 0
    /\ \E h \in 1..Len(hunters) :
          hunters[h].level = 6 /\ hunters[h].exp = 0 /\ hunters[h].total_exp = 500
    /\ Len(logs) >= 2 /\ logs[Len(logs) - 1].message = "levelup"

\* C3: every stored hunter has rank = the rank of its level and
\* 0 <= exp < LEVEL_STEP.
C3_RankAndExpInvariant ==
    \A h \in 1..Len(hunters) :
        /\ hunters[h].rank = RankByTable(hunters[h].level)
        /\ 0 <= hunters[h].exp
        /\ hunters[h].exp < LEVEL_STEP

\* A hunter whose claims moved it off the initial rank.
C3_Witness ==
    \E h \in 1..Len(hunters) :
        hunters[h].level >= 5 /\ hunters[h].rank = "D" /\ hunters[h].total_exp > 0

\* Position of a rank in the order E < D < C < B < A < S < Shadow Monarch
RankIndex(rank) == CHOOSE n \in 1..Len(RANKS) : RANKS[n] = rank

\* C4: compute_rank returns the rank of the highest threshold the level
\* reaches (30 Shadow Monarch, 25 S, 20 A, 15 B, 10 C, 5 D, else E), and a
\* higher level never gets a lower rank.
C4_RankThresholdsMonotonic ==
    rank_out # <<"", "">> =>
        /\ \A n \in {1, 2} :
              /\ rank_out[n] = RankByTable(rank_in[n])
              /\ rank_in[n] >= 30 => rank_out[n] = "Shadow Monarch"
              /\ (rank_in[n] >= 20 /\ rank_in[n] < 25) => rank_out[n] = "A"
              /\ (rank_in[n] >= 10 /\ rank_in[n] < 15) => rank_out[n] = "C"
              /\ rank_in[n] < 5 => rank_out[n] = "E"
        /\ rank_in[1] <= rank_in[2] =>
              RankIndex(rank_out[1]) <= RankIndex(rank_out[2])

\* compute_rank applied to a level of rank B and a level of rank S.
C4_Witness ==
    rank_in = <<17, 26>> /\ rank_out = <<"B", "S">>

\* C5 as stated: at the boundaries, level 29 is "A", 30 "Shadow Monarch",
\* 4 "E", 5 "D".
C5_RankBoundariesAsStated ==
    rank_out # <<"", "">> =>
        \A n \in {1, 2} :
            /\ rank_in[n] = 29 => rank_out[n] = "A"
            /\ rank_in[n] = 30 => rank_out[n] = "Shadow Monarch"
            /\ rank_in[n] = 4 => rank_out[n] = "E"
            /\ rank_in[n] = 5 => rank_out[n] = "D"

\* C5 (amended): at the boundaries, level 29 is "S" (29 >= 25), 30 "Shadow
\* Monarch", 4 "E", 5 "D".
C5_RankBoundaries ==
    rank_out # <<"", "">> =>
        \A n \in {1, 2} :
            /\ rank_in[n] = 29 => rank_out[n] = "S"
            /\ rank_in[n] = 30 => rank_out[n] = "Shadow Monarch"
            /\ rank_in[n] = 4 => rank_out[n] = "E"
            /\ rank_in[n] = 5 => rank_out[n] = "D"

\* compute_rank applied to the two upper boundary levels.
C5_Witness ==
    rank_in = <<29, 30>> /\ rank_out = <<"S", "Shadow Monarch">>

\* C6: complete on a completed or claimed quest changes nothing and answers
\* 200 with the current status; on a pending quest it sets completed, appends
\* exactly one success log and touches no hunter or stats document.
C6_CompleteIdempotent ==
    [][\A i \in 1..Len(quests) :
          (response'.op = "complete_quest" /\ complete_quest(i)) =>
              IF quests[i].status \in {"completed", "claimed"}
              THEN /\ StoreUnchanged
                   /\ response'.code = 200
                   /\ response'.status = quests[i].status
              ELSE /\ quests[i].status = "pending"
                   /\ quests' = [quests EXCEPT ![i].status = "completed"]
                   /\ Len(NewLogs) = 1
                   /\ NewLogs[1].level = "success"
                   /\ NewLogs[1].message = "completed"
                   /\ logs' = logs \o NewLogs
                   /\ UNCHANGED <<hunters, stats>>
                   /\ response'.code = 200
                   /\ response'.status = "completed"]_vars

\* A complete request answered "claimed": it ran on a claimed quest.
C6_Witness ==
    /\ response.op = "complete_quest" /\ response.code = 200
    /\ response.status = "claimed"
    /\ \E i \in 1..Len(quests) : quests[i].status = "claimed"

\* Number of documents of a collection that satisfy a test
CountDocs(coll, Test(_)) == Cardinality({n \in 1..Len(coll) : Test(coll[n])})

\* One stats document and one welcome log per hunter, one hunter per email
OneOfEach ==
    /\ \A h \in 1..Len(hunters) :
          /\ CountDocs(stats, LAMBDA d : d.hunter_id = h) = 1
          /\ CountDocs(logs, LAMBDA d : d.hunter_id = h /\ d.message = "awakened") = 1
    /\ \A e \in Emails \ {""} :
          CountDocs(hunters, LAMBDA d : d.email = e) <= 1

\* C7: create-or-get with an email some hunter already has returns that
\* hunter's id and record and changes nothing; in every state there is one
\* hunter per email, and one stats document and one welcome log per hunter.
C7_CreateOrGetIdempotent ==
    [][/\ \A n \in DisplayNames, e \in Emails \ {""} :
             (response'.op = "create_or_get_hunter"
                /\ (\E h \in 1..Len(hunters) : hunters[h].email = e)
                /\ create_or_get_hunter(n, e)) =>
                 /\ StoreUnchanged
                 /\ response'.id \in 1..Len(hunters)
                 /\ hunters[response'.id].email = e
                 /\ response'.total_exp = hunters[response'.id].total_exp
                 /\ response'.level = hunters[response'.id].level
       /\ OneOfEach /\ OneOfEach']_vars

\* A later create-or-get returned the second hunter, which has progressed
\* since its creation; only the lookup by its email finds it.
C7_Witness ==
    /\ response.op = "create_or_get_hunter" /\ response.total_exp > 0
    /\ Len(hunters) = 2 /\ response.id = 2
    /\ hunters[2].email # ""

\* Every quest keeps its id and its fields other than status, and a new
\* quest is pending
QuestsKept ==
    /\ Len(quests') >= Len(quests)
    /\ \A i \in 1..Len(quests) :
          quests'[i] = [quests[i] EXCEPT !.status = quests'[i].status]
    /\ \A i \in (Len(quests) + 1)..Len(quests') : quests'[i].status = "pending"

\* C8 as stated: a quest's status changes only by the steps
\* pending -> completed and completed -> claimed; quests start pending and
\* are never deleted.
C8_LifecycleAsStated ==
    [][/\ QuestsKept
       /\ \A i \in 1..Len(quests) :
             quests'[i].status # quests[i].status =>
                 << quests[i].status, quests'[i].status >>
                     \in {<<"pending", "completed">>, <<"completed", "claimed">>}]_vars

\* C8 (amended): a quest's status changes only by the steps
\* pending -> completed, completed -> claimed and pending -> claimed (so at
\* most twice, and never after claimed); quests start pending and are never
\* deleted.
C8_Lifecycle ==
    [][/\ QuestsKept
       /\ \A i \in 1..Len(quests) :
             quests'[i].status # quests[i].status =>
                 << quests[i].status, quests'[i].status >>
                     \in {<<"pending", "completed">>, <<"completed", "claimed">>,
                          <<"pending", "claimed">>}]_vars

\* A quest that went through both steps: completed, then claimed.
C8_Witness ==
    /\ Len(quests) = 1 /\ quests[1].status = "claimed"
    /\ \E m, n \in 1..Len(logs) :
          m < n /\ logs[m].message = "completed" /\ logs[n].message = "rewards"

\* C9: a claim on a pending quest of an existing hunter awards the reward and
\* sets the status to claimed, with the same writes as for a completed quest.
C9_ClaimFromPending ==
    [][\A i \in 1..Len(quests) :
          (response'.op = "claim_quest"
             /\ quests[i].status \in {"pending", "completed"}
             /\ FindHunterById(quests[i].hunter_id) # NoDoc
             /\ claim_quest(i)) =>
              LET hid == quests[i].hunter_id
                  R == quests[i].exp_reward
              IN  /\ quests' = [quests EXCEPT ![i].status = "claimed"]
                  /\ hunters'[hid].total_exp = hunters[hid].total_exp + R
                  /\ hunters'[hid].level = hunters[hid].level
                                             + ((hunters[hid].exp + R) \div LEVEL_STEP)
                  /\ \A k \in DOMAIN quests[i].stat_reward :
                        k \in DOMAIN stats'[FindStats(hid)].counters
                  /\ NewLogs[Len(NewLogs)].message = "rewards"
                  /\ response'.code = 200
                  /\ response'.status = "claimed"
                  /\ response'.total_exp = hunters'[hid].total_exp]_vars

\* A quest claimed without ever being completed: no "completed" log exists.
C9_Witness ==
    /\ response.op = "claim_quest" /\ response.total_exp = 405
    /\ \E i \in 1..Len(quests) : quests[i].status = "claimed"
    /\ \A n \in 1..Len(logs) : logs[n].message # "completed"

\* C10: a claim that awards adds stat_reward[k] to counter k of the hunter's
\* stats document for every key k of the reward, an absent counter counting
\* as 0, and leaves every other counter and every other stats document as it
\* was; with an empty reward the stats collection is unchanged.
C10_StatAccrual ==
    [][\A i \in 1..Len(quests) :
          Awards(i) =>
              LET hid == quests[i].hunter_id
                  sr == quests[i].stat_reward
                  si == FindStats(hid)
                  old == stats[si].counters
                  new == stats'[si].counters
              IN  IF DOMAIN sr = {}
                  THEN stats' = stats
                  ELSE /\ si # NoDoc
                       /\ Len(stats') = Len(stats)
                       /\ \A n \in 1..Len(stats) : n # si => stats'[n] = stats[n]
                       /\ stats'[si].hunter_id = hid
                       /\ DOMAIN new = DOMAIN old \cup DOMAIN sr
                       /\ \A k \in DOMAIN sr :
                             new[k] = (IF k \in DOMAIN old THEN old[k] ELSE 0) + sr[k]
                       /\ \A k \in DOMAIN old \ DOMAIN sr : new[k] = old[k]]_vars

\* A stats document after the claims of two seeded quests, {STR: 1, STA: 1}
\* and {INT: 1}: STR, STA and INT are 1 + 1 and DEX and LUK are still 1.
C10_Witness ==
    /\ response.op = "claim_quest" /\ response.total_exp = 55
    /\ \E n \in 1..Len(stats) :
          /\ DOMAIN stats[n].counters = StatNames
          /\ \A k \in {"STR", "STA", "INT"} : stats[n].counters[k] = 2
          /\ \A k \in {"DEX", "LUK"} : stats[n].counters[k] = 1

\* C11: every counter STR, INT, DEX, STA, LUK of every stats document is >= 0.
C11_CountersNonNegative ==
    \A n \in 1..Len(stats) :
        \A k \in StatNames \cap DOMAIN stats[n].counters :
            stats[n].counters[k] >= 0

\* C12: an awarding claim appends the info log of the reward as its last
\* entry, preceded by one "Level Up!" success log exactly when the level
\* grew (two entries or one), and the quest is claimed in the state that has
\* these logs.
C12_ClaimLogs ==
    [][\A i \in 1..Len(quests) :
          Awards(i) =>
              LET hid == quests[i].hunter_id
                  up == hunters'[hid].level > hunters[hid].level
                  summary == [hunter_id |-> hid, message |-> "rewards",
                              level |-> "info"]
                  levelup == [hunter_id |-> hid, message |-> "levelup",
                              level |-> "success"]
              IN  /\ logs' = logs \o NewLogs
                  /\ Len(NewLogs) = (IF up THEN 2 ELSE 1)
                  /\ NewLogs = (IF up THEN <<levelup, summary>> ELSE <<summary>>)
                  /\ quests'[i].status = "claimed"]_vars

\* A claim that did not level up: its summary log follows the quest's
\* "registered" log directly.
C12_Witness ==
    /\ response.op = "claim_quest" /\ response.level = 1 /\ response.exp = 95
    /\ Len(logs) >= 2
    /\ logs[Len(logs)].message = "rewards"
    /\ logs[Len(logs) - 1].message = "registered"

C14_TotalExpMonotonic ==
    [][/\ \A h \in 1..Len(hunters) :
             hunters'[h].total_exp >= hunters[h].total_exp
       /\ \A i \in 1..Len(quests) :
             Awards(i) =>
                 hunters'[quests[i].hunter_id].total_exp
                     = hunters[quests[i].hunter_id].total_exp + quests[i].exp_reward]_vars

\* A hunter whose total_exp passed the EXP of four levels in two claims.
C14_Witness ==
    \E h \in 1..Len(hunters) :
        /\ hunters[h].total_exp = 95 + 405
        /\ Cardinality({i \in 1..Len(quests) :
                           quests[i].hunter_id = h /\ quests[i].status = "claimed"}) = 2

\* Number of stats documents of a hunter id
StatsCount(coll, hid) == Cardinality({n \in 1..Len(coll) : coll[n].hunter_id = hid})

\* C15: get-stats returns the existing stats document and changes nothing
\* when the hunter id has one, and otherwise inserts and returns a document
\* with the five counters at 1; no hunter id ever has two stats documents.
C15_GetStatsLazyInit ==
    [][/\ \A hid \in HunterIdInputs :
             (response'.op = "get_stats" /\ get_stats(hid)) =>
                 IF StatsCount(stats, hid) > 0
                 THEN /\ StoreUnchanged
                      /\ \E n \in 1..Len(stats) :
                            /\ stats[n].hunter_id = hid
                            /\ response'.counters = stats[n].counters
                 ELSE /\ stats' = Append(stats,
                             [hunter_id |-> hid,
                              counters |-> [k \in StatNames |-> 1]])
                      /\ response'.counters = [k \in StatNames |-> 1]
                      /\ UNCHANGED <<hunters, quests, logs>>
       /\ \A hid \in HunterIdInputs \cup (1..Len(hunters')) :
             StatsCount(stats', hid) <= 1]_vars

\* Get-stats returned a document that claims have changed, while the lazily
\* created document of the id without a hunter is in the collection too.
C15_Witness ==
    /\ response.op = "get_stats"
    /\ response.counters # [k \in StatNames |-> 1]
    /\ StatsCount(stats, GhostId) = 1
    /\ Len(stats) = 2

\* The claim requests of quest i that have written the hunter
AwardedClaims(i) ==
    {r \in 1..Len(requests) :
        /\ requests[r].op = "claim_quest"
        /\ requests[r].quest_id = i
        /\ requests[r].awarded}

RewardLogs == {n \in 1..Len(logs) : logs[n].message = "rewards"}

\* C16: a claim request awards on the status it read and nothing else: each
\* hunter write is by a request that read a status other than claimed, and it
\* adds the reward to the total_exp that request read, whatever the stored
\* status of the quest is by then.  (The witness is the state the claim
\* describes: the reward of one quest in total_exp twice.)
C16_ClaimNotAtomic ==
    [][\A r \in 1..Len(requests) :
          ClaimWriteHunter(r) =>
              /\ requests[r].q.status # "claimed"
              /\ hunters'[requests[r].hunter_id].total_exp
                    = requests[r].hunter.total_exp + requests[r].q.exp_reward]_vars

\* Two claims of quest 1 and no other request: both awarded, and the
\* hunter's total_exp is twice the quest's exp_reward.
C16_Witness ==
    /\ Len(requests) = 2
    /\ AwardedClaims(1) = {1, 2}
    /\ InFlight = {}
    /\ hunters[1].total_exp = 2 * quests[1].exp_reward
    /\ quests[1].status = "claimed" /\ quests[2].status = "pending"
    /\ Cardinality(RewardLogs) = 2

\* C17: in every interleaving, every hunter has
\* total_exp = LEVEL_STEP * (level - 1) + exp.
C17_TotalExpMatchesLevel ==
    \A h \in 1..Len(hunters) :
        hunters[h].total_exp = 100 * (hunters[h].level - 1) + hunters[h].exp

\* Two claims in flight at once, both past their hunter write, and the
\* hunter above level 1.
C17_Witness ==
    /\ \E r1, r2 \in InFlight :
          r1 # r2 /\ requests[r1].awarded /\ requests[r2].awarded
    /\ hunters[1].level > 1

\* Sum of exp_reward over the claimed quests of hunter h among the first n
RECURSIVE ClaimedRewards(_, _)
ClaimedRewards(h, n) ==
    IF n = 0 THEN 0
    ELSE ClaimedRewards(h, n - 1)
           + (IF quests[n].hunter_id = h /\ quests[n].status = "claimed"
              THEN quests[n].exp_reward ELSE 0)

\* C18: with requests one at a time, each hunter's total_exp is the sum of
\* exp_reward over its quests whose status is claimed.
C18_TotalExpIsClaimedSum ==
    \A h \in 1..Len(hunters) :
        hunters[h].total_exp = ClaimedRewards(h, Len(quests))

\* A hunter with one claimed and one completed quest: only the claimed one
\* is in its total_exp.
C18_Witness ==
    /\ Len(quests) = 2
    /\ quests[1].hunter_id = 1 /\ quests[2].hunter_id = 1
    /\ quests[1].status = "completed" /\ quests[2].status = "claimed"
    /\ quests[1].exp_reward > 0
    /\ hunters[1].total_exp = quests[2].exp_reward

\* C19: the status of a claimed quest changes only by the write of a
\* complete request that read the quest while it was pending, and that write
\* sets completed; a request that reads claimed writes nothing.  (The witness
\* is the state the claim describes: the reward awarded, the quest completed.)
C19_CompleteOverwritesClaimed ==
    [][\A i \in 1..Len(quests) :
          (quests[i].status = "claimed" /\ quests'[i].status # "claimed") =>
              /\ quests'[i].status = "completed"
              /\ \E r \in 1..Len(requests) :
                    /\ requests[r].op = "complete_quest"
                    /\ requests[r].quest_id = i
                    /\ requests[r].pc = "write_quest"
                    /\ requests'[r].pc = "write_log"
                    /\ requests[r].q.status = "pending"]_vars

\* One complete and one claim of quest 1 have returned: the reward is in
\* total_exp and logged, and the quest is in status completed, open to
\* another claim.
C19_Witness ==
    /\ Len(requests) = 2 /\ InFlight = {}
    /\ AwardedClaims(1) # {}
    /\ hunters[1].total_exp = quests[1].exp_reward
    /\ Cardinality(RewardLogs) = 1
    /\ quests[1].status = "completed"

\* C20: when one claim request per quest has run and both have returned,
\* the hunter's total_exp is one of the two rewards or their sum.  (The
\* witness is the state the claim describes: both quests claimed, one reward
\* in total_exp.)
C20_LostUpdate ==
    (/\ InFlight = {}
     /\ \A i \in 1..2 : Cardinality(AwardedClaims(i)) = 1
     /\ \A r \in 1..Len(requests) : requests[r].op = "claim_quest" => requests[r].awarded)
        => hunters[1].total_exp \in
              {quests[1].exp_reward, quests[2].exp_reward,
               quests[1].exp_reward + quests[2].exp_reward}

\* Both quests claimed by one request each, and only the reward of quest 2 in
\* total_exp, exp and level.
C20_Witness ==
    /\ Len(requests) = 2 /\ InFlight = {}
    /\ quests[1].status = "claimed" /\ quests[2].status = "claimed"
    /\ Cardinality(AwardedClaims(1)) = 1 /\ Cardinality(AwardedClaims(2)) = 1
    /\ hunters[1].total_exp = quests[2].exp_reward
    /\ hunters[1].level = 5 /\ hunters[1].exp = 5

====
